---- MODULE Spec2Model ----
(***************************************************************************)
(* Model of fast-load.py: the per-file retry loop (upload_with_retries),   *)
(* the error classifier (is_retryable), the backoff step (backoff_sleep)   *)
(* and the dispatcher in main (ThreadPoolExecutor + Executor.map).         *)
(*                                                                         *)
(* Optional values of the program (None or a value) are sequences of       *)
(* length at most one: None is << >> and a value x is <<x>>.               *)
(***************************************************************************)
EXTENDS Integers, Sequences, FiniteSets, TLC

\* ---------------------------------------------------------------- bounds
MaxFiles == 2
MaxRetries == 2
MaxSizeDelta == 20

\* ------------------------------------------------------ program constants
DIRECT_UPLOAD_MAX == 52428800
DEFAULT_BACKOFF_MS == 750

None == << >>
Some(x) == <<x>>

\* ------------------------------------------------------------ input sets
\* e.status of a BoxAPIException raised by the client in a run: one status
\* for each branch of the retry loop, or absent.
Statuses == {None, Some(400), Some(404), Some(409), Some(503)}

\* e.headers.get("Retry-After"): absent, a number, a negative number, or
\* text that float() rejects.
RetryAfterHeaders == {None, Some("2"), Some("-1"), Some("abc")}

BoxError(status, header) ==
    [type |-> "BoxAPIException", status |-> status, header |-> header]

\* Any exception that is no BoxAPIException (a network failure).
OtherError == [type |-> "ConnectionError", status |-> None, header |-> None]

\* The exceptions the client raises in a run: every status without a
\* Retry-After header, the retried status with every header, and a network
\* failure. (The header of the other statuses is never read by the loop; the
\* classifier is checked on every pair below.)
Errors ==
    {BoxError(s, None) : s \in Statuses}
        \cup {BoxError(Some(503), h) : h \in RetryAfterHeaders}
        \cup {OtherError}

\* What one call of upload_small / upload_large gives back: a file object
\* or an exception.
ClientResults == {[ok |-> TRUE, err |-> OtherError]} \cup [ok : {FALSE}, err : Errors]

\* File sizes seen by file_path.stat().st_size.
Sizes == {DIRECT_UPLOAD_MAX - 1, DIRECT_UPLOAD_MAX, DIRECT_UPLOAD_MAX + 1}

\* The errors is_retryable is checked on alone: every status from 100 to 600
\* or none, with every header above or an empty one.
ClassifierInputs ==
    {BoxError(s, h) : s \in {None} \cup {Some(n) : n \in 100 .. 600},
                      h \in RetryAfterHeaders \cup {Some("")}}
        \cup {OtherError}

\* ------------------------------------------------------------ is_retryable
\* float(ra): the parsed number, or "raises" for text float() rejects.
FloatOf(s) ==
    CASE s = "2" -> [raises |-> FALSE, val |-> 2]
      [] s = "-1" -> [raises |-> FALSE, val |-> -1]
      [] OTHER -> [raises |-> TRUE, val |-> 0]

\* Lines 54-59: ra is used only when truthy; a float() failure leaves None.
ParseRetryAfter(header) ==
    IF header = None \/ header = Some("") THEN None
    ELSE IF FloatOf(header[1]).raises THEN None
    ELSE Some(FloatOf(header[1]).val)

Verdict(raises, retryable, code, retry_after) ==
    [raises |-> raises, retryable |-> retryable,
     code |-> code, retry_after |-> retry_after]

\* is_retryable with line 60 reading code < 599: status 599 is not retried.
is_retryable_Below599(e) ==
    IF e.type = "BoxAPIException"
    THEN LET code == e.status
             retry_after == ParseRetryAfter(e.header)
         IN  IF code \in {Some(409), Some(400)}
             THEN Verdict(FALSE, FALSE, code, None)
             ELSE IF code = Some(429) THEN Verdict(FALSE, TRUE, code, retry_after)
             ELSE IF code = None THEN Verdict(TRUE, FALSE, code, None)
             ELSE IF 500 <= code[1] /\ code[1] < 599
                  THEN Verdict(FALSE, TRUE, code, retry_after)
                  ELSE Verdict(FALSE, FALSE, code, None)
    ELSE Verdict(FALSE, TRUE, None, None)

\* is_retryable with line 62 returning True: a status that is none of 400,
\* 409, 429 and 5xx is retried.
is_retryable_RetryOther(e) ==
    IF e.type = "BoxAPIException"
    THEN LET code == e.status
             retry_after == ParseRetryAfter(e.header)
         IN  IF code \in {Some(409), Some(400)}
             THEN Verdict(FALSE, FALSE, code, None)
             ELSE IF code = None THEN Verdict(TRUE, FALSE, code, None)
             ELSE Verdict(FALSE, TRUE, code, retry_after)
    ELSE Verdict(FALSE, TRUE, None, None)

\* raises = TRUE stands for the TypeError of `500 <= None`.
is_retryable(e) ==
    IF e.type = "BoxAPIException"
    THEN LET code == e.status
             retry_after == ParseRetryAfter(e.header)
         IN  IF code \in {Some(409), Some(400)}
             THEN Verdict(FALSE, FALSE, code, None)
             ELSE IF code = Some(429) THEN Verdict(FALSE, TRUE, code, retry_after)
             ELSE IF code = None THEN Verdict(TRUE, FALSE, code, None)
             ELSE IF 500 <= code[1] /\ code[1] <= 599
                  THEN Verdict(FALSE, TRUE, code, retry_after)
                  ELSE Verdict(FALSE, FALSE, code, None)
    ELSE Verdict(FALSE, TRUE, None, None)

\* ------------------------------------------------------------ backoff_sleep
RECURSIVE Pow2(_)
Pow2(n) == IF n <= 0 THEN 1 ELSE 2 * Pow2(n - 1)

\* Line 66 with the attempt taken as 0-based: base * 2^attempt.
backoff_delay_ZeroBased(attempt, base, retry_after) ==
    IF retry_after # None THEN retry_after[1] * 1000
    ELSE base * Pow2(attempt)

\* Line 66, in milliseconds: the hint when there is one, else base * 2^(attempt-1).
backoff_delay(attempt, base, retry_after) ==
    IF retry_after # None THEN retry_after[1] * 1000
    ELSE base * Pow2(attempt - 1)

\* Line 69: time.sleep raises ValueError on a negative duration; the jitter
\* factor is positive, so the sign is that of the delay.
SleepRaises(delay) == delay < 0

\* Line 68: jitter = 0.75 + 0.5 * (byte / 255.0), which is
\* (765 + 2 * byte) / 1020; the value is its numerator over 1020.
jitter(byte) == 765 + 2 * byte

\* Lines 65-69 for one random byte: the unjittered delay in milliseconds, the
\* jitter factor in 1020ths, the duration given to time.sleep in 1020ths of a
\* millisecond, and whether time.sleep raises.
backoff_sleep(attempt, base, retry_after, byte) ==
    LET delay == backoff_delay(attempt, base, retry_after)
    IN  [delay |-> delay, jitter |-> jitter(byte), duration |-> delay * jitter(byte),
         raises |-> SleepRaises(delay)]

\* ------------------------------------------------------- the program state
VARIABLES
    numFiles,    \* len(files)
    workers,     \* args.workers
    retries,     \* args.retries
    task,        \* per file: position and locals of its upload_with_retries call
    worker,      \* per pool thread: the file it is running, 0 when idle
    mainpc,      \* position of main
    nextResult,  \* index of the next result Executor.map yields
    ok, skipped, failed,  \* the counters of main
    printed,     \* the result lines printed so far
    exit,        \* the process exit status, None while running
    classified,  \* the last error given to is_retryable alone, with its verdict
    slept,       \* the last call of backoff_sleep made alone, with what it slept
    selected     \* the last file size given to the top of the loop alone, with its call

vars == <<numFiles, workers, retries, task, worker, mainpc, nextResult,
          ok, skipped, failed, printed, exit, classified, slept, selected>>

Max(a, b) == IF a >= b THEN a ELSE b

\* Line 144 with max(2, ...): a pool of two for --workers 1.
PoolSize_AtLeast2 == Max(2, workers)

\* max_workers of the ThreadPoolExecutor (line 144).
PoolSize == Max(1, workers)

Tasks == 1 .. numFiles

\* The frame of one upload_with_retries call. attempt and retry_after are its
\* locals (retry_after is dropped with the frame when the call ends); e is
\* the exception being handled (type and status), unbound when the except
\* block is left and kept after a return or a raise as the record of the
\* failure that ended the loop; call is the client call in flight; delay is
\* the unjittered delay of the backoff sleep in progress; ret is
\* the returned (file_id, err) and raised the exception that left the call;
\* calls and sleeps count the client calls and the backoff sleeps made so far.
NewFrame ==
    [pc |-> "listed", attempt |-> 0, retry_after |-> None, e |-> None,
     call |-> None, delay |-> None, ret |-> None, raised |-> "",
     calls |-> 0, sleeps |-> 0]

\* The err strings of lines 102-109, as their parts.
ErrText(head, code, n, exc) ==
    [head |-> head, code |-> code, retries |-> n, exc |-> exc]

Returned(file_id, err) == Some([file_id |-> file_id, err |-> err])

\* Line 94 with < for <=: a file of exactly the threshold goes chunked.
Strategy_Strict(size) == IF size < DIRECT_UPLOAD_MAX THEN "upload_small" ELSE "upload_large"

\* Lines 94-97: st_size <= DIRECT_UPLOAD_MAX picks upload_small.
Strategy(size) == IF size <= DIRECT_UPLOAD_MAX THEN "upload_small" ELSE "upload_large"

\* Lines 93-97: the top of the loop stats the file and calls the client
\* through the upload function its size selects.
BeginAttempt(f, size) ==
    [f EXCEPT !.pc = "uploading", !.e = None, !.delay = None, !.calls = @ + 1,
              !.call = Some([via |-> Strategy(size)])]

\* Line 98: the call returned a file object.
OnSuccess(f) ==
    [f EXCEPT !.pc = "returned", !.call = None, !.retry_after = None,
              !.ret = Returned(Some("file_id"), None)]

\* An outcome assigned inside the except block without leaving the loop: the
\* return is missing and the loop goes on to its backoff sleep.
ReturnErr_NoReturn(f, err) ==
    [f EXCEPT !.pc = "sleeping", !.retry_after = None, !.ret = Returned(None, Some(err))]

\* A return from inside the except block with the backoff sleep made before
\* it: the loop sleeps once more, then returns.
ReturnErr_SleepsFirst(f, err) ==
    [f EXCEPT !.pc = "returned", !.retry_after = None, !.sleeps = @ + 1,
              !.ret = Returned(None, Some(err))]

\* A return from inside the except block (lines 102-109).
ReturnErr(f, err) ==
    [f EXCEPT !.pc = "returned", !.retry_after = None, !.ret = Returned(None, Some(err))]

\* Line 101 with a mistyped status.
IsConflict_Typo(isBox, code) == isBox /\ code = Some(408)

\* Line 101.
IsConflict(isBox, code) == isBox /\ code = Some(409)

\* Line 103.
IsBadRequest(isBox, code) == isBox /\ code = Some(400)

\* Line 108 with the bound off by one upwards: one retry too many.
Exhausted_OneMore(attempt, R) == attempt > R + 1

\* Line 108.
Exhausted(attempt, R) == attempt > R

\* Line 100 with the hint of an earlier failure kept when this one has none.
HintFor_KeepsOld(old, new) == IF new = None THEN old ELSE new

\* Line 100: retry_after is bound anew to what is_retryable returned for this
\* failure; the value left by an earlier pass of the loop is overwritten.
HintFor(old, new) == new

\* Lines 99-110: the call raised e.
OnException(f, e, R) ==
    LET v == is_retryable(e)
        isBox == e.type = "BoxAPIException"
        g == [f EXCEPT !.call = None, !.e = Some([type |-> e.type, status |-> e.status])]
    IN  IF v.raises THEN [g EXCEPT !.pc = "raised", !.raised = "TypeError", !.retry_after = None]
        ELSE IF IsConflict(isBox, v.code)
        THEN ReturnErr(g, ErrText("skipped: 409 Conflict (name exists)", None, None, ""))
        ELSE IF IsBadRequest(isBox, v.code)
        THEN ReturnErr(g, ErrText("skipped: 400 Bad Request", None, None, ""))
        ELSE IF ~v.retryable
        THEN ReturnErr(g, ErrText("failed: HTTP", v.code, None, e.type))
        ELSE
        LET h == [g EXCEPT !.attempt = @ + 1,
                           !.retry_after = HintFor(@, v.retry_after)]
            d == backoff_delay(h.attempt, DEFAULT_BACKOFF_MS, h.retry_after)
        IN  IF Exhausted(h.attempt, R)
            THEN ReturnErr(h, ErrText("failed after", None, Some(R), e.type))
            ELSE IF SleepRaises(d)
            THEN [h EXCEPT !.pc = "raised", !.raised = "ValueError", !.retry_after = None]
            ELSE [h EXCEPT !.pc = "sleeping", !.sleeps = @ + 1, !.delay = Some(d)]

TypeOK ==
    /\ numFiles \in 0 .. MaxFiles
    /\ workers \in 0 .. MaxFiles
    /\ retries \in -1 .. MaxRetries
    /\ DOMAIN task = Tasks
    /\ \A t \in Tasks :
          /\ task[t].pc \in {"listed", "queued", "uploading", "sleeping",
                             "returned", "raised", "cancelled"}
          /\ task[t].attempt \in 0 .. MaxRetries + 1
    /\ worker \in [1 .. PoolSize -> 0 .. numFiles]
    /\ mainpc \in {"start", "map", "shutdown", "done", "raised"}
    /\ nextResult \in 1 .. numFiles + 1

\* The state when main has parsed its arguments and listed the files.
Init ==
    /\ numFiles \in 0 .. MaxFiles
    /\ workers \in 0 .. MaxFiles
    /\ retries \in -1 .. MaxRetries
    /\ task = [t \in 1 .. numFiles |-> NewFrame]
    /\ worker = [w \in 1 .. PoolSize |-> 0]
    /\ mainpc = "start"
    /\ nextResult = 1
    /\ ok = 0 /\ skipped = 0 /\ failed = 0
    /\ printed = << >>
    /\ exit = None
    /\ classified = None
    /\ slept = None
    /\ selected = None

\* ------------------------------------------------------------------- main
\* Lines 131-145: no files returns 0; otherwise Executor.map submits every
\* file to the pool before the first result is read.
MainStart ==
    /\ mainpc = "start"
    /\ IF numFiles = 0
       THEN /\ mainpc' = "done"
            /\ exit' = Some(0)
            /\ task' = task
       ELSE /\ mainpc' = "map"
            /\ exit' = exit
            /\ task' = [t \in Tasks |-> [task[t] EXCEPT !.pc = "queued"]]
    /\ UNCHANGED <<numFiles, workers, retries, worker, nextResult,
                   ok, skipped, failed, printed, classified, slept, selected>>

\* A pool thread takes a work item only while no thread is in a backoff
\* sleep: the sleep made under a lock the threads share.
WorkerTake_SleepLock(w, size) ==
    /\ \A u \in Tasks : task[u].pc # "sleeping"
    /\ worker[w] = 0
    /\ \A v \in DOMAIN worker : v < w => worker[v] # 0
    /\ \E t \in Tasks :
          /\ task[t].pc = "queued"
          /\ \A u \in Tasks : u < t => task[u].pc # "queued"
          /\ task' = [task EXCEPT ![t] = BeginAttempt([@ EXCEPT !.attempt = 0], size)]
          /\ worker' = [worker EXCEPT ![w] = t]
    /\ UNCHANGED <<numFiles, workers, retries, mainpc, nextResult,
                   ok, skipped, failed, printed, exit, classified, slept, selected>>

\* A pool thread takes the oldest pending work item, enters
\* upload_with_retries (line 91: attempt = 0) and makes the first attempt.
\* The threads of the pool are interchangeable: the idle thread with the
\* lowest index stands for whichever idle thread the work queue wakes.
WorkerTake(w, size) ==
    /\ worker[w] = 0
    /\ \A v \in DOMAIN worker : v < w => worker[v] # 0
    /\ \E t \in Tasks :
          /\ task[t].pc = "queued"
          /\ \A u \in Tasks : u < t => task[u].pc # "queued"
          /\ task' = [task EXCEPT ![t] = BeginAttempt([@ EXCEPT !.attempt = 0], size)]
          /\ worker' = [worker EXCEPT ![w] = t]
    /\ UNCHANGED <<numFiles, workers, retries, mainpc, nextResult,
                   ok, skipped, failed, printed, exit, classified, slept, selected>>

\* Lines 98-110: the client call returns or raises; the loop returns, raises
\* or goes to sleep. A thread whose call has ended is idle again.
AttemptReturns(t, res) ==
    /\ task[t].pc = "uploading"
    /\ LET f == IF res.ok THEN OnSuccess(task[t])
                ELSE OnException(task[t], res.err, retries)
       IN  /\ task' = [task EXCEPT ![t] = f]
           /\ worker' = [w \in DOMAIN worker |->
                           IF worker[w] = t /\ f.pc \in {"returned", "raised"}
                           THEN 0 ELSE worker[w]]
    /\ UNCHANGED <<numFiles, workers, retries, mainpc, nextResult,
                   ok, skipped, failed, printed, exit, classified, slept, selected>>

\* Lines 69, 92-97 with the next attempt also started while the client call
\* of the previous one is still in flight.
SleepEnds_Early(t, size) ==
    /\ task[t].pc \in {"sleeping", "uploading"}
    /\ task' = [task EXCEPT ![t] = BeginAttempt(@, size)]
    /\ UNCHANGED <<numFiles, workers, retries, worker, mainpc, nextResult,
                   ok, skipped, failed, printed, exit, classified, slept, selected>>

\* Lines 69, 92-97: time.sleep returns and the loop makes the next attempt.
SleepEnds(t, size) ==
    /\ task[t].pc = "sleeping"
    /\ task' = [task EXCEPT ![t] = BeginAttempt(@, size)]
    /\ UNCHANGED <<numFiles, workers, retries, worker, mainpc, nextResult,
                   ok, skipped, failed, printed, exit, classified, slept, selected>>

\* err.startswith("skipped") on the err strings above.
StartsWithSkipped(err) ==
    err.head \in {"skipped: 409 Conflict (name exists)", "skipped: 400 Bad Request"}

\* Lines 146-154: which counter a result goes to.
Category(r) ==
    IF r.err = None /\ r.file_id # None THEN "OK"
    ELSE IF r.err # None /\ StartsWithSkipped(r.err[1]) THEN "SKIP"
    ELSE "ERR"

\* Lines 145-154 with the results read as the calls complete (as_completed
\* in place of map): any returned result not yet read is the next one.
MainYield_AsCompleted ==
    /\ mainpc = "map"
    /\ nextResult <= numFiles
    /\ \E t \in Tasks :
          /\ task[t].pc = "returned"
          /\ \A i \in 1 .. Len(printed) : printed[i].path # t
          /\ LET c == Category(task[t].ret[1])
             IN  /\ ok' = IF c = "OK" THEN ok + 1 ELSE ok
                 /\ skipped' = IF c = "SKIP" THEN skipped + 1 ELSE skipped
                 /\ failed' = IF c = "ERR" THEN failed + 1 ELSE failed
                 /\ printed' = Append(printed, [status |-> c, path |-> t])
    /\ nextResult' = nextResult + 1
    /\ UNCHANGED <<numFiles, workers, retries, task, worker, mainpc, exit, classified, slept, selected>>

\* Lines 145-154: map yields the results in the order of files; the next one
\* is read when its call has returned.
MainYield ==
    /\ mainpc = "map"
    /\ nextResult <= numFiles
    /\ task[nextResult].pc = "returned"
    /\ LET c == Category(task[nextResult].ret[1])
       IN  /\ ok' = IF c = "OK" THEN ok + 1 ELSE ok
           /\ skipped' = IF c = "SKIP" THEN skipped + 1 ELSE skipped
           /\ failed' = IF c = "ERR" THEN failed + 1 ELSE failed
           /\ printed' = Append(printed, [status |-> c, path |-> nextResult])
    /\ nextResult' = nextResult + 1
    /\ UNCHANGED <<numFiles, workers, retries, task, worker, mainpc, exit, classified, slept, selected>>

\* Line 145: the next result is an exception; map's iterator re-raises it in
\* main and cancels the work items no thread has taken yet.
MainResultRaises ==
    /\ mainpc = "map"
    /\ nextResult <= numFiles
    /\ task[nextResult].pc = "raised"
    /\ task' = [t \in Tasks |->
                  IF task[t].pc = "queued" THEN [task[t] EXCEPT !.pc = "cancelled"]
                  ELSE task[t]]
    /\ mainpc' = "shutdown"
    /\ UNCHANGED <<numFiles, workers, retries, worker, nextResult,
                   ok, skipped, failed, printed, exit, classified, slept, selected>>

\* Line 144: leaving the with block waits for the running calls, then the
\* exception leaves main: no summary, exit status 1 from the interpreter.
MainPropagates ==
    /\ mainpc = "shutdown"
    /\ \A w \in DOMAIN worker : worker[w] = 0
    /\ mainpc' = "raised"
    /\ exit' = Some(1)
    /\ UNCHANGED <<numFiles, workers, retries, task, worker, nextResult,
                   ok, skipped, failed, printed, classified, slept, selected>>

\* Line 157 with failed > 1 for failed != 0.
ExitStatus_Above1(nfailed) == IF nfailed <= 1 THEN 0 ELSE 1

\* Line 157.
ExitStatus(nfailed) == IF nfailed = 0 THEN 0 ELSE 1

\* Lines 156-157: every result was read; print the summary and return.
MainReturns ==
    /\ mainpc = "map"
    /\ nextResult > numFiles
    /\ mainpc' = "done"
    /\ exit' = Some(ExitStatus(failed))
    /\ UNCHANGED <<numFiles, workers, retries, task, worker, nextResult,
                   ok, skipped, failed, printed, classified, slept, selected>>

Next ==
    \/ MainStart
    \/ \E w \in DOMAIN worker, size \in Sizes : WorkerTake(w, size)
    \/ \E t \in Tasks, res \in ClientResults : AttemptReturns(t, res)
    \/ \E t \in Tasks, size \in Sizes : SleepEnds(t, size)
    \/ MainYield
    \/ MainResultRaises
    \/ MainPropagates
    \/ MainReturns

Spec == Init /\ [][Next]_vars


\* ================================================================ claims
\* The frames whose retry loop is running.
InProgress == {t \in Tasks : task[t].pc \in {"uploading", "sleeping"}}

\* The loop of t has returned an outcome.
HasOutcome(t) == task[t].pc = "returned"

\* The result line printed for t, if any.
LinesOf(t) == {i \in 1 .. Len(printed) : printed[i].path = t}

\* The loop of t is over: it returned or an exception left it.
Ended(t) == task[t].pc \in {"returned", "raised"}

\* C1 as stated: every submitted task yields exactly one outcome: no loop ends
\* without one and no task is dropped, no task is counted or printed twice,
\* and when the process exits every task has returned one outcome, has one
\* result line, and ok + skipped + failed = len(files).
C1_OneOutcomePerTask ==
    /\ \A t \in Tasks : task[t].pc \notin {"raised", "cancelled"}
    /\ \A t \in Tasks : Cardinality(LinesOf(t)) <= 1
    /\ ok + skipped + failed = Len(printed)
    /\ (exit # None =>
          /\ ok + skipped + failed = numFiles
          /\ \A t \in Tasks : HasOutcome(t) /\ Cardinality(LinesOf(t)) = 1)

BoxStatus(t) ==
    IF task[t].e # None /\ task[t].e[1].type = "BoxAPIException"
    THEN task[t].e[1].status ELSE None

\* The status is one the classifier retries: 429 or 500..599.
RefRetryable(n) == n = 429 \/ (n >= 500 /\ n <= 599)

\* The head of the err string t returned, "" for a success.
ErrHead(t) ==
    IF task[t].ret[1].err = None THEN "" ELSE task[t].ret[1].err[1].head

\* C3 as stated: a task whose attempt failed with a structured status other
\* than 409, 429 and 5xx (a 400 included) has returned a failed outcome, and
\* its result line, once printed, is ERR and not SKIP.
C3_TerminalIsFailed ==
    \A t \in Tasks :
        (BoxStatus(t) # None /\ BoxStatus(t)[1] # 409 /\ ~RefRetryable(BoxStatus(t)[1]))
            => /\ HasOutcome(t)
               /\ ErrHead(t) = "failed: HTTP"
               /\ \A i \in LinesOf(t) : printed[i].status = "ERR"

\* C3 amended: a structured status other than 400, 409, 429 and 5xx ends the
\* loop at once with a failed outcome naming that status, counted as failed;
\* a 400 ends the loop at once with a skipped outcome, counted as skipped.
C3_Amended ==
    \A t \in Tasks :
        /\ (BoxStatus(t) # None /\ BoxStatus(t)[1] \notin {400, 409}
                /\ ~RefRetryable(BoxStatus(t)[1]))
            => /\ HasOutcome(t)
               /\ ErrHead(t) = "failed: HTTP"
               /\ task[t].ret[1].err[1].code = BoxStatus(t)
               /\ \A i \in LinesOf(t) : printed[i].status = "ERR"
        /\ BoxStatus(t) = Some(400)
            => /\ HasOutcome(t)
               /\ ErrHead(t) = "skipped: 400 Bad Request"
               /\ \A i \in LinesOf(t) : printed[i].status = "SKIP"

C3_Witness ==
    \E t, u \in Tasks :
        /\ BoxStatus(t) = Some(404) /\ LinesOf(t) # {} /\ failed >= 1
        /\ BoxStatus(u) = Some(400) /\ LinesOf(u) # {} /\ skipped >= 1

\* The loop of t ended in a terminal error that is no conflict, or in retry
\* exhaustion: it returned while handling an exception other than a 409.
EndedInErrorNot409(t) ==
    HasOutcome(t) /\ task[t].e # None /\ BoxStatus(t) # Some(409)

\* C4 as stated: when some task ended in a terminal non-conflict error (a 400
\* included) or in retry exhaustion, the exit status is not 0.
C4_ExitNonZeroOnFailure ==
    (exit # None /\ \E t \in Tasks : EndedInErrorNot409(t)) => exit # Some(0)

\* C4 amended: the exit status is 0 only if failed = 0 and no task ended in
\* retry exhaustion or in a terminal error other than 409 and 400; a run
\* whose only errors are 409 and 400 exits with 0.
C4_Amended ==
    /\ exit = Some(0) =>
          /\ failed = 0
          /\ \A t \in Tasks :
                /\ HasOutcome(t)
                /\ EndedInErrorNot409(t) => BoxStatus(t) = Some(400)
    /\ (mainpc = "done" /\ failed = 0) => exit = Some(0)

C4_Witness ==
    /\ exit = Some(1)
    /\ mainpc = "done"
    /\ failed = 1
    /\ \E t \in Tasks : HasOutcome(t) /\ ErrHead(t) = "failed after"

\* A second state of C4's case: a 400 and nothing worse, and exit status 0.
C4_WitnessBadRequest ==
    /\ exit = Some(0)
    /\ numFiles >= 1
    /\ \E t \in Tasks : BoxStatus(t) = Some(400)

\* C6: a task whose attempt raised a 409 has returned the skipped outcome,
\* with no sleep for that failure (as many sleeps as earlier failures, one
\* fewer than calls) and no call in flight, whatever retries is; its result
\* line is SKIP.
C6_ConflictSkipsAtOnce ==
    \A t \in Tasks :
        BoxStatus(t) = Some(409)
            => /\ HasOutcome(t)
               /\ ErrHead(t) = "skipped: 409 Conflict (name exists)"
               /\ task[t].call = None
               /\ task[t].sleeps = task[t].calls - 1
               /\ task[t].sleeps = task[t].attempt
               /\ \A i \in LinesOf(t) : printed[i].status = "SKIP"

C6_Witness ==
    \E t \in Tasks :
        /\ BoxStatus(t) = Some(409)
        /\ retries = 2
        /\ task[t].calls = 1
        /\ task[t].sleeps = 0
        /\ LinesOf(t) # {}

\* C7: a task whose last call succeeded after k failed calls has the success
\* outcome, slept exactly k times and made exactly k + 1 calls, with
\* k <= retries.
C7_SuccessAfterKFailures ==
    \A t \in Tasks :
        (HasOutcome(t) /\ task[t].e = None)
            => /\ task[t].ret[1].err = None
               /\ task[t].ret[1].file_id # None
               /\ task[t].sleeps = task[t].calls - 1
               /\ task[t].attempt = task[t].calls - 1
               /\ task[t].calls - 1 <= Max(0, retries)
               /\ \A i \in LinesOf(t) : printed[i].status = "OK"

C7_Witness ==
    \E t \in Tasks :
        /\ HasOutcome(t) /\ task[t].e = None
        /\ task[t].calls = 3
        /\ task[t].sleeps = 2

\* The exception the loop of t ended on or is handling is one the classifier
\* retries: no BoxAPIException, or one with status 429 or 500..599.
OnRetryableError(t) ==
    /\ task[t].e # None
    /\ \/ task[t].e[1].type # "BoxAPIException"
       \/ /\ task[t].e[1].status # None
          /\ RefRetryable(task[t].e[1].status[1])

\* C8 as stated: with retries = R >= 0, a loop that is over and whose last
\* attempt failed with a retryable error (so every attempt did) made exactly
\* R + 1 calls, and its outcome is the failure after R retries.
C8_ExhaustionAfterRPlus1 ==
    retries >= 0 =>
        \A t \in Tasks :
            (Ended(t) /\ OnRetryableError(t))
                => /\ HasOutcome(t)
                   /\ ErrHead(t) = "failed after"
                   /\ task[t].ret[1].err[1].retries = Some(retries)
                   /\ task[t].calls = retries + 1

\* C9 as stated: the dispatcher never raises and never drops a task: main is
\* never left by an exception, no submitted task is cancelled, and when the
\* process exits every task has a result line.
C9_NoFailureAborts ==
    /\ mainpc \notin {"shutdown", "raised"}
    /\ \A t \in Tasks : task[t].pc # "cancelled"
    /\ exit # None => Len(printed) = numFiles

\* The threads running task t.
RunnersOf(t) == {w \in DOMAIN worker : worker[w] = t}

\* C10: at most max(1, workers) retry loops are in progress; every loop in
\* progress is run by exactly one thread and every busy thread runs a loop in
\* progress; a thread lets go of a task only when its loop has ended, takes
\* only a task no thread has taken, and a taken task is never pending again.
C10_BoundedPool ==
    /\ [](/\ Cardinality(InProgress) <= Max(1, workers)
          /\ \A t \in InProgress : Cardinality(RunnersOf(t)) = 1
          /\ \A w \in DOMAIN worker : worker[w] # 0 => worker[w] \in InProgress)
    /\ [][/\ \A w \in DOMAIN worker :
                worker'[w] # worker[w] =>
                    IF worker[w] # 0
                    THEN worker'[w] = 0 /\ task'[worker[w]].pc \in {"returned", "raised"}
                    ELSE task[worker'[w]].pc = "queued"
          /\ \A t \in Tasks :
                task[t].pc \notin {"listed", "queued"} => task'[t].pc # "queued"]_vars

C10_Witness ==
    /\ workers = 0
    /\ numFiles >= 2
    /\ HasOutcome(1)
    /\ InProgress = {2}
    /\ task[2].pc = "sleeping"

\* --------------------------------------------------------------------- C11
\* The step of main that reports the result of t.
Reports(t) == MainYield /\ LinesOf(t)' # {}

\* C11 as stated: a task whose retry loop has finished is reported without
\* waiting for a task submitted earlier that is still in progress: whenever
\* main is reading results and t has returned an outcome that is not yet
\* reported, main can report t now.
C11_ReportedAsCompleted ==
    \A t \in Tasks :
        (mainpc = "map" /\ HasOutcome(t) /\ LinesOf(t) = {}) => ENABLED Reports(t)

\* C11 amended: results are reported in submission order: the i-th result
\* line is that of the i-th submitted file, and a task is reported only when
\* every task submitted before it has returned and has been reported; a
\* finished task behind an unfinished earlier one cannot be reported.
C11_Amended ==
    /\ \A i \in 1 .. Len(printed) : printed[i].path = i
    /\ \A t \in Tasks : LinesOf(t) # {} =>
          \A u \in Tasks : u < t => HasOutcome(u) /\ LinesOf(u) # {}
    /\ \A t \in Tasks :
          (\E u \in Tasks : u < t /\ ~Ended(u)) => ~ENABLED Reports(t)

\* The later task has finished while the earlier one is still in its backoff
\* sleep; its result is held back.
C11_Witness ==
    /\ mainpc = "map"
    /\ numFiles >= 2
    /\ task[1].pc = "sleeping"
    /\ HasOutcome(2)
    /\ printed = << >>

\* --------------------------------------------------------------------- C16
\* C16: terminal states are absorbing: once the loop of a task has an outcome
\* (success, skipped or failed) no step changes its frame: no further client
\* call, no further sleep, and the outcome stays what it is.
C16_TerminalAbsorbing ==
    [][\A t \in Tasks :
          (HasOutcome(t) \/ task[t].ret # None) =>
              /\ task'[t] = task[t]
              /\ task'[t].calls = task[t].calls
              /\ task'[t].sleeps = task[t].sleeps
              /\ task'[t].ret = task[t].ret]_vars

\* The first task ended at once on a terminal error, and the run went on to
\* its end with that frame as it was: one call, no sleep, the same outcome.
C16_Witness ==
    /\ mainpc = "done"
    /\ numFiles >= 2
    /\ HasOutcome(1)
    /\ ErrHead(1) = "failed: HTTP"
    /\ task[1].calls = 1
    /\ task[1].sleeps = 0
    /\ task[2].calls >= 2

\* --------------------------------------------------------------------- C17
\* C17: the attempts of one task are strictly ordered: one thread at most
\* runs the task and a client call is in flight exactly while the frame is
\* uploading; a new attempt starts only from a pending task (the first one)
\* or from a finished backoff sleep that followed a failed attempt classified
\* as retryable, never while a call is in flight, and it is the next attempt.
C17_AttemptsInOrder ==
    /\ [](\A t \in Tasks :
            /\ Cardinality(RunnersOf(t)) <= 1
            /\ (task[t].call # None) <=> (task[t].pc = "uploading")
            /\ task[t].pc = "sleeping" =>
                  /\ OnRetryableError(t)
                  /\ task[t].sleeps = task[t].calls)
    /\ [][\A t \in Tasks :
            task'[t].calls # task[t].calls =>
                /\ task'[t].calls = task[t].calls + 1
                /\ task'[t].pc = "uploading"
                /\ task[t].call = None
                /\ task[t].pc \in {"queued", "sleeping"}
                /\ task[t].pc = "queued" => task[t].calls = 0
                /\ task[t].pc = "sleeping" =>
                      /\ task[t].calls >= 1
                      /\ OnRetryableError(t)]_vars

\* The third attempt of a task is in flight after two backoff sleeps.
C17_Witness ==
    \E t \in Tasks :
        /\ task[t].pc = "uploading"
        /\ task[t].calls = 3
        /\ task[t].sleeps = 2

\* --------------------------------------------------------------------- C18
\* C18: a thread in a backoff sleep does not hold the others back: with a
\* pool of two or more, while some task sleeps, an idle thread can take the
\* oldest pending task, and every other task whose call is in flight can
\* complete.
C18_SleepDoesNotBlock ==
    (PoolSize >= 2 /\ \E t \in Tasks : task[t].pc = "sleeping") =>
        /\ ((\E u \in Tasks : task[u].pc = "queued") /\ (\E w \in DOMAIN worker : worker[w] = 0))
              => ENABLED (\E w \in DOMAIN worker, size \in Sizes : WorkerTake(w, size))
        /\ \A u \in Tasks :
              task[u].pc = "uploading" =>
                  ENABLED (\E res \in ClientResults : AttemptReturns(u, res) /\ HasOutcome(u)')

\* One thread sleeps on the first task while the second thread, which took
\* the second task, has its call in flight.
C18_Witness ==
    /\ PoolSize >= 2
    /\ numFiles >= 2
    /\ task[1].pc = "sleeping"
    /\ task[2].pc = "uploading"
    /\ worker[1] = 1
    /\ worker[2] = 2

\* --------------------------------------------------------------------- C19
\* C19: whenever the loop has returned an outcome, the number of backoff
\* sleeps it made is the number of client calls minus one; a sleep is made
\* only between two attempts, never before the first or after the last.
C19_SleepsBetweenAttempts ==
    \A t \in Tasks :
        /\ HasOutcome(t) => task[t].sleeps = task[t].calls - 1
        /\ task[t].calls = 0 => task[t].sleeps = 0
        /\ task[t].pc = "uploading" => task[t].sleeps = task[t].calls - 1

\* A loop that exhausted two retries: three calls, two sleeps.
C19_Witness ==
    \E t \in Tasks :
        /\ HasOutcome(t)
        /\ ErrHead(t) = "failed after"
        /\ task[t].calls = 3
        /\ task[t].sleeps = 2

\* --------------------------------------------------------------------- C20
\* C20: a Retry-After hint governs only the sleep after the failure that
\* carried it: a sleep after a failure that cannot carry a hint (no
\* BoxAPIException) has no hint and lasts base * 2^(n-1), n being the number
\* of failed attempts so far, those with a hint included; in particular when
\* the previous failure left a hint behind, the hint is not used again.
C20_HintNotReused ==
    /\ [](\A t \in Tasks :
            task[t].pc = "sleeping" =>
                /\ task[t].attempt = task[t].calls
                /\ task[t].e[1].type # "BoxAPIException" =>
                      /\ task[t].retry_after = None
                      /\ task[t].delay = Some(DEFAULT_BACKOFF_MS * 2 ^ (task[t].calls - 1)))
    /\ [][\A t \in Tasks :
            (/\ task[t].pc = "uploading"
             /\ task[t].retry_after # None
             /\ task'[t].pc = "sleeping"
             /\ task'[t].e[1].type # "BoxAPIException")
                => /\ task'[t].retry_after = None
                   /\ task'[t].delay = Some(750 * 2 ^ (task[t].calls - 1))]_vars

\* The second failure of a task carried no hint and its sleep lasts twice
\* the base interval.
C20_Witness ==
    \E t \in Tasks :
        /\ task[t].pc = "sleeping"
        /\ task[t].e[1].type = "ConnectionError"
        /\ task[t].calls = 2
        /\ task[t].retry_after = None
        /\ task[t].delay = Some(1500)

\* ------------------------------------------------ is_retryable on its own
InitClassify ==
    /\ numFiles = 0
    /\ workers = 0
    /\ retries = 0
    /\ task = << >>
    /\ worker = [w \in {1} |-> 0]
    /\ mainpc = "start"
    /\ nextResult = 1
    /\ ok = 0 /\ skipped = 0 /\ failed = 0
    /\ printed = << >>
    /\ exit = None
    /\ classified = None
    /\ slept = None
    /\ selected = None

Classify(e) ==
    /\ classified' = Some([e |-> e, v |-> is_retryable(e)])
    /\ UNCHANGED <<numFiles, workers, retries, task, worker, mainpc, nextResult,
                   ok, skipped, failed, printed, exit, slept, selected>>

NextClassify == \E e \in ClassifierInputs : Classify(e)

SpecClassify == InitClassify /\ [][NextClassify]_vars


C15_ClassifyTotal ==
    classified # None =>
        /\ ~classified[1].v.raises
        /\ classified[1].v.retryable \in BOOLEAN

\* ------------------------------------------------- backoff_sleep on its own
\* The attempt numbers backoff_sleep is called with (line 110: 1 .. retries).
SleepAttempts == 1 .. MaxRetries + 1

\* Base intervals in milliseconds: none, the default, and twice the default.
SleepBases == {0, DEFAULT_BACKOFF_MS, 2 * DEFAULT_BACKOFF_MS}

\* The retry_after values is_retryable can hand over: none, or a float.
SleepHints == {None, Some(0), Some(2), Some(-1)}

\* os.urandom(1)[0].
RandomBytes == 0 .. 255

InitBackoff ==
    /\ numFiles = 0
    /\ workers = 0
    /\ retries = 0
    /\ task = << >>
    /\ worker = [w \in {1} |-> 0]
    /\ mainpc = "start"
    /\ nextResult = 1
    /\ ok = 0 /\ skipped = 0 /\ failed = 0
    /\ printed = << >>
    /\ exit = None
    /\ classified = None
    /\ slept = None
    /\ selected = None

\* One call of backoff_sleep, made once in a behaviour.
BackoffSleep(attempt, base, retry_after, byte) ==
    /\ slept = None
    /\ slept' = Some([attempt |-> attempt, base |-> base, retry_after |-> retry_after,
                      byte |-> byte,
                      r |-> backoff_sleep(attempt, base, retry_after, byte)])
    /\ UNCHANGED <<numFiles, workers, retries, task, worker, mainpc, nextResult,
                   ok, skipped, failed, printed, exit, classified, selected>>

NextBackoff ==
    \E attempt \in SleepAttempts, base \in SleepBases,
       retry_after \in SleepHints, byte \in RandomBytes :
        BackoffSleep(attempt, base, retry_after, byte)

SpecBackoff == InitBackoff /\ [][NextBackoff]_vars

\* C12: the unjittered delay before retry n is the server hint when the
\* failure carried one, and base * 2^(n-1) otherwise; the first retry waits
\* the base interval, and without hints the delay before retry n+1 is twice,
\* hence at least, the delay before retry n.
C12_DelaySchedule ==
    slept # None =>
        LET s == slept[1]
        IN  /\ s.retry_after # None => s.r.delay = 1000 * s.retry_after[1]
            /\ s.retry_after = None =>
                  /\ s.r.delay = s.base * 2 ^ (s.attempt - 1)
                  /\ s.attempt = 1 => s.r.delay = s.base
                  /\ backoff_delay(s.attempt + 1, s.base, None) = 2 * s.r.delay
                  /\ backoff_delay(s.attempt + 1, s.base, None) >= s.r.delay

\* The third retry without a hint waits four times the default base.
C12_Witness ==
    /\ slept # None
    /\ slept[1].attempt = 3
    /\ slept[1].base = DEFAULT_BACKOFF_MS
    /\ slept[1].retry_after = None
    /\ slept[1].r.delay = 3000

\* C13 as stated: for every random byte the jitter factor lies in the
\* half-open interval [0.75, 1.25), so the duration slept is at least 0.75
\* times and strictly less than 1.25 times a positive unjittered delay.
C13_JitterHalfOpen ==
    slept # None =>
        LET r == slept[1].r
        IN  /\ 765 <= r.jitter /\ r.jitter < 1275
            /\ r.delay > 0 =>
                  /\ 765 * r.delay <= r.duration
                  /\ r.duration < 1275 * r.delay

\* ------------------------------------------- the top of the loop on its own
\* File sizes around the threshold, and the empty file.
SelectSizes ==
    {0} \cup (DIRECT_UPLOAD_MAX - MaxSizeDelta .. DIRECT_UPLOAD_MAX + MaxSizeDelta)

InitSelect == InitBackoff

\* Lines 93-97 at the top of attempt number attempt + 1 on a file of this size.
SelectAttempt(attempt, size) ==
    /\ selected' =
          Some([attempt |-> attempt, size |-> size,
                f |-> BeginAttempt([NewFrame EXCEPT !.pc = "queued", !.attempt = attempt,
                                                    !.calls = attempt, !.sleeps = attempt],
                                   size)])
    /\ UNCHANGED <<numFiles, workers, retries, task, worker, mainpc, nextResult,
                   ok, skipped, failed, printed, exit, classified, slept>>

NextSelect ==
    \E attempt \in 0 .. MaxRetries, size \in SelectSizes : SelectAttempt(attempt, size)

SpecSelect == InitSelect /\ [][NextSelect]_vars

\* C14: on every attempt a file of at most 50 * 1024 * 1024 bytes is sent
\* through the whole-file call and a larger file through the chunked call; a
\* file of exactly the threshold is sent whole.
C14_StrategyBySize ==
    selected # None =>
        LET s == selected[1]
        IN  /\ s.f.pc = "uploading"
            /\ s.f.calls = s.attempt + 1
            /\ s.size <= 50 * 1024 * 1024 => s.f.call = Some([via |-> "upload_small"])
            /\ s.size > 50 * 1024 * 1024 => s.f.call = Some([via |-> "upload_large"])
            /\ s.size = 52428800 => s.f.call = Some([via |-> "upload_small"])

\* A file of exactly the threshold, on a retry, goes through upload_small.
C14_Witness ==
    /\ selected # None
    /\ selected[1].size = DIRECT_UPLOAD_MAX
    /\ selected[1].attempt = 1
    /\ selected[1].f.call = Some([via |-> "upload_small"])

====
